---------------------------- MODULE Spec2Model ----------------------------
(***************************************************************************)
(* Multiparty BFV protocols of fhe.rs (crates/fhe/src/mbfv): the two-round *)
(* relinearization-key generation, the public key switch, the public key   *)
(* share and the common random polynomials, and the Multiplicator of       *)
(* crates/fhers/src/bfv/ops/mul.rs, modelled over the ring Z_Q (ring       *)
(* degree 1) with an RNS modulus chain.  A ring element is a record        *)
(* [q, v]: the product q of the moduli of its context and its value v in   *)
(* 0..q-1.                                                                 *)
(***************************************************************************)
EXTENDS Integers, Sequences, FiniteSets, TLC

\* ------------------------------------------------------------------ bounds

\* Number of parties of a protocol run.
NumParties == 2

\* Seeds the caller-supplied random number generators start from: 0..MaxSeed.
MaxSeed == 3

\* Longest CRP vector a caller hands to RelinKeyGenerator::new.
MaxCrpLen == 3

\* Successful calls of each constructor (RelinKeyGenerator::new,
\* PublicKeyShare::new, PublicKeySwitchShare::new) and encryptions one party
\* makes.  The rounds of a generator may be run again and again.
MaxCalls == 1

\* The largest plaintext and the deepest level an encryption is asked for.
MaxPlain == 2

MaxLevels == 1

Parties == 1..NumParties

\* The states a caller seeds a random number generator with.
Seeds == 0..MaxSeed

\* ------------------------------------------------- Parameters (external)

\* Three Parameters instances.  "A" and "B" have the same modulus chain and
\* differ in the plaintext modulus; "C" has a shorter chain.
ParIds == {"A", "B", "C"}

Moduli(p) == IF p = "C" THEN <<257>> ELSE <<257, 5>>

PlainMod(p) == IF p = "B" THEN 3 ELSE 2

MaxLevel(p) == Len(Moduli(p)) - 1

RECURSIVE Product(_)
Product(ms) == IF ms = <<>> THEN 1 ELSE Head(ms) * Product(Tail(ms))

\* The moduli of the context at a level: the chain without its last `l` moduli.
CtxModuli(p, l) == SubSeq(Moduli(p), 1, Len(Moduli(p)) - l)

\* par.ctx_at_level(l), as the product of the context's moduli.
CtxQ(p, l) == Product(CtxModuli(p, l))

\* ------------------------------------------------- ring layer (external)

Poly(q, z) == [q |-> q, v |-> z % q]

\* The representative of x mod q in (-q/2, q/2].
Centered(x, q) == IF 2 * (x % q) > q THEN (x % q) - q ELSE x % q

Abs(z) == IF z < 0 THEN -z ELSE z

\* Ring operations; the result lives in the left operand's context.
PolyAdd(a, b) == [q |-> a.q, v |-> (a.v + b.v) % a.q]

PolySub(a, b) == [q |-> a.q, v |-> (a.v - b.v) % a.q]

PolyMul(a, b) == [q |-> a.q, v |-> (a.v * b.v) % a.q]

PolyNeg(a) == [q |-> a.q, v |-> (0 - a.v) % a.q]

\* BigUint * &Poly: multiplication by a scalar.
PolyScale(w, a) == [q |-> a.q, v |-> (w * a.v) % a.q]

\* The operands of a binary ring operation live in different contexts.
CtxMismatch(a, b) == a.q # b.q

\* A caller's random number generator: a linear congruential stream.
NextRng(r) == (5 * r + 3) % 16

RECURSIVE RngAfter(_, _)
RngAfter(r, n) == IF n = 0 THEN r ELSE RngAfter(NextRng(r), n - 1)

\* The states of a caller's random number generator.
RngStates == 0..15

\* Poly::small(ctx, Ntt, variance, rng): the k-th draw (k = 1, 2, ...) from
\* state r is a ring element with a coefficient in {-1, 0, 1}.
PolySmall(q, r, k) == Poly(q, (RngAfter(r, k) % 3) - 1)

\* Poly::random(ctx, Ntt, rng): the k-th draw from state r, uniform.
PolyRandom(q, r, k) == Poly(q, 1 + 83 * RngAfter(r, k) + 7 * k)

\* rns.get_garner(i) of RnsContext::new(ms): the weight that is 1 modulo
\* ms[i] and 0 modulo the other moduli (i counts from 1 here).
Garner(ms, i) ==
    CHOOSE w \in 0..(Product(ms) - 1) :
        \A k \in 1..Len(ms) : w % ms[k] = (IF k = i THEN 1 ELSE 0)

GarnerA == [i \in 1..2 |-> Garner(<<257, 5>>, i)]

GarnerC == [i \in 1..1 |-> Garner(<<257>>, i)]

\* get_garner over the first n moduli of p's chain.
GetGarner(p, n, i) ==
    IF n = Len(Moduli(p))
    THEN (IF p = "C" THEN GarnerC[i] ELSE GarnerA[i])
    ELSE Garner(SubSeq(Moduli(p), 1, n), i)

\* Poly::try_convert_from(sk.coeffs, ctx, false, PowerBasis) followed by
\* change_representation(Ntt): the secret key as a ring element of a context.
SecretPoly(sk, q) == Poly(q, sk.coeffs)

\* Option<T>: None is <<>>, Some(x) is <<x>>.
None == <<>>

Some(x) == <<x>>

IsSome(o) == Len(o) = 1

Unwrap(o) == o[1]


\* All sequences without repetition over the elements of S.
InjSeqs(S) ==
    UNION { { f \in [1..n -> S] : \A a, b \in 1..n : a # b => f[a] # f[b] } :
            n \in 0..Cardinality(S) }

\* The outcome of a call: Ok(val), or Err(err) with val = None.  `rng` is the
\* caller's generator after the call; `mism` says that a ring operation of
\* the call met operands of different contexts.
Ok(x, r, mism) == [status |-> "Ok", err |-> "", val |-> Some(x), rng |-> r, mism |-> mism]

Err(e, r) == [status |-> "Err", err |-> e, val |-> None, rng |-> r, mism |-> FALSE]

\* -------------------------------------------- relin_key_gen.rs: round 1

\* RelinKeyGenerator::new: the generator of party j over the CRP vector crp.
RelinKeyGenerator_new_BadCheck(j, skj, crp, r) ==
    LET q == CtxQ(skj.par, 0)
        u == PolySmall(q, r, 1)
    IN  IF Len(crp) > Len(CtxModuli(skj.par, 0))
        THEN Err("CrpSize", RngAfter(r, 1))
        ELSE Ok([sk_share |-> j, crp |-> crp, u |-> u], RngAfter(r, 1), FALSE)

RelinKeyGenerator_new(j, skj, crp, r) ==
    LET q == CtxQ(skj.par, 0)
    IN  IF Len(crp) # Len(CtxModuli(skj.par, 0))
        THEN Err("CrpSize", r)
        ELSE Ok([sk_share |-> j, crp |-> crp, u |-> PolySmall(q, r, 1)],
                RngAfter(r, 1), FALSE)

\* RelinKeyShare<R1>::generate_h0: h0[i] = crp[i]*u + w_i*s + e_i.
R1_generate_h0(skj, crp, u, r) ==
    LET q == CtxQ(skj.par, 0)
        s == SecretPoly(skj, q)
    IN  [i \in 1..Len(crp) |->
            LET w   == GetGarner(skj.par, Len(crp), i)
                w_s == PolyScale(w, s)
                e   == PolySmall(q, r, i)
            IN  PolyAdd(PolyAdd(PolyMul(crp[i], u), w_s), e)]

\* RelinKeyShare<R1>::generate_h1: h1[i] = crp[i]*s + e_i.
R1_generate_h1(skj, crp, r) ==
    LET q == CtxQ(skj.par, 0)
        s == SecretPoly(skj, q)
    IN  [i \in 1..Len(crp) |-> PolyAdd(PolyMul(crp[i], s), PolySmall(q, r, i))]

\* The CRP elements are multiplied and added to elements of the secret
\* key's level-0 context.
R1_mismatch(skj, crp) == \E i \in 1..Len(crp) : crp[i].q # CtxQ(skj.par, 0)

\* RelinKeyShare<R1>::new.
RelinKeyShare_R1_new(skj, crp, u, r) ==
    IF Len(crp) # Len(CtxModuli(skj.par, 0))
    THEN Err("CrpSize", r)
    ELSE Ok([round |-> "R1", par |-> skj.par,
             h0 |-> R1_generate_h0(skj, crp, u, r),
             h1 |-> R1_generate_h1(skj, crp, RngAfter(r, Len(crp))),
             last_round |-> None],
            RngAfter(r, 2 * Len(crp)), R1_mismatch(skj, crp))

\* izip!(h.iter_mut(), g.iter()).for_each(|(hi, gi)| *hi += gi): the pairs
\* end with the shorter vector; h keeps its length.
AddVec(h, g) ==
    [i \in 1..Len(h) |-> IF i <= Len(g) THEN PolyAdd(h[i], g[i]) ELSE h[i]]

VecMismatch(h, g) ==
    \E i \in 1..Len(h) : i <= Len(g) /\ CtxMismatch(h[i], g[i])

\* The loop of RelinKeyShare<R1>::aggregate over the shares after the first.
RECURSIVE R1_fold(_, _)
R1_fold(acc, shares) ==
    IF shares = <<>> THEN acc
    ELSE LET sh == Head(shares)
         IN  R1_fold([h0 |-> AddVec(acc.h0, sh.h0), h1 |-> AddVec(acc.h1, sh.h1),
                      mism |-> acc.mism \/ VecMismatch(acc.h0, sh.h0)
                                        \/ VecMismatch(acc.h1, sh.h1)],
                     Tail(shares))

\* impl Aggregate for RelinKeyShare<R1>.
R1_aggregate_EmptyOk(shares) ==
    IF shares = <<>>
    THEN Ok([round |-> "R1Aggregated", par |-> "A", h0 |-> <<>>, h1 |-> <<>>,
             last_round |-> None], 0, FALSE)
    ELSE LET share == Head(shares)
             sum   == R1_fold([h0 |-> share.h0, h1 |-> share.h1, mism |-> FALSE],
                              Tail(shares))
         IN  Ok([round |-> "R1Aggregated", par |-> share.par,
                 h0 |-> sum.h0, h1 |-> sum.h1, last_round |-> None],
                0, sum.mism)

R1_aggregate(shares) ==
    IF shares = <<>>
    THEN Err("TooFewValues(0, 1)", 0)
    ELSE LET share == Head(shares)
             sum   == R1_fold([h0 |-> share.h0, h1 |-> share.h1, mism |-> FALSE],
                              Tail(shares))
         IN  Ok([round |-> "R1Aggregated", par |-> share.par,
                 h0 |-> sum.h0, h1 |-> sum.h1, last_round |-> None],
                0, sum.mism)

\* -------------------------------------------- relin_key_gen.rs: round 2

\* RelinKeyShare<R2>::generate_h0: h0'[i] = agg_h0[i]*s + e_i.
R2_generate_h0(skj, r1_h0, r) ==
    LET q == CtxQ(skj.par, 0)
        s == SecretPoly(skj, q)
    IN  [i \in 1..Len(r1_h0) |-> PolyAdd(PolyMul(r1_h0[i], s), PolySmall(q, r, i))]

\* RelinKeyShare<R2>::generate_h1: h1'[i] = agg_h1[i]*(u - s) + e_i.
R2_generate_h1(skj, u, r1_h1, r) ==
    LET q   == CtxQ(skj.par, 0)
        s   == SecretPoly(skj, q)
        u_s == PolySub(u, s)
    IN  [i \in 1..Len(r1_h1) |-> PolyAdd(PolyMul(r1_h1[i], u_s), PolySmall(q, r, i))]

R2_mismatch(skj, r1) ==
    \/ \E i \in 1..Len(r1.h0) : r1.h0[i].q # CtxQ(skj.par, 0)
    \/ \E i \in 1..Len(r1.h1) : r1.h1[i].q # CtxQ(skj.par, 0)

\* RelinKeyShare<R2>::new.
RelinKeyShare_R2_new_NoCopy(skj, u, r1, r) ==
    Ok([round |-> "R2", par |-> skj.par,
        h0 |-> R2_generate_h0(skj, r1.h0, r),
        h1 |-> R2_generate_h1(skj, u, r1.h1, RngAfter(r, Len(r1.h0))),
        last_round |-> None],
       RngAfter(r, Len(r1.h0) + Len(r1.h1)), R2_mismatch(skj, r1))

RelinKeyShare_R2_new(skj, u, r1, r) ==
    Ok([round |-> "R2", par |-> skj.par,
        h0 |-> R2_generate_h0(skj, r1.h0, r),
        h1 |-> R2_generate_h1(skj, u, r1.h1, RngAfter(r, Len(r1.h0))),
        last_round |-> Some(r1)],
       RngAfter(r, Len(r1.h0) + Len(r1.h1)), R2_mismatch(skj, r1))

\* RelinKeyGenerator::round_1 on the generator self, whose sk_share refers
\* to the key skj: the share built from the generator's key, CRP and mask;
\* `self` is the generator after the call.
round_1(self, skj, r) ==
    RelinKeyShare_R1_new(skj, self.crp, self.u, r) @@ [self |-> self]

\* RelinKeyGenerator::round_2.
round_2_FreshMask(self, skj, r1, r) ==
    LET u == PolySmall(CtxQ(skj.par, 0), r, Len(r1.h0) + Len(r1.h1) + 1)
    IN  RelinKeyShare_R2_new(skj, u, r1, r) @@ [self |-> [self EXCEPT !.u = u]]

round_2(self, skj, r1, r) ==
    RelinKeyShare_R2_new(skj, self.u, r1, r) @@ [self |-> self]

\* izip!(h.iter_mut(), a.iter(), b.iter()): *hi += ai; *hi += bi.
AddVec3_DropAcc(h, a, b) ==
    [i \in 1..Len(h) |->
        IF i <= Len(a) /\ i <= Len(b) THEN PolyAdd(a[i], b[i]) ELSE h[i]]

AddVec3(h, a, b) ==
    [i \in 1..Len(h) |->
        IF i <= Len(a) /\ i <= Len(b) THEN PolyAdd(PolyAdd(h[i], a[i]), b[i]) ELSE h[i]]

VecMismatch3(h, a, b) ==
    \E i \in 1..Len(h) :
        i <= Len(a) /\ i <= Len(b) /\ (CtxMismatch(h[i], a[i]) \/ CtxMismatch(h[i], b[i]))

\* The loop of RelinKeyShare<R2>::aggregate over the shares after the first.
RECURSIVE R2_fold(_, _)
R2_fold(acc, shares) ==
    IF shares = <<>> THEN acc
    ELSE LET sh == Head(shares)
         IN  R2_fold([h |-> AddVec3(acc.h, sh.h0, sh.h1),
                      mism |-> acc.mism \/ VecMismatch3(acc.h, sh.h0, sh.h1)],
                     Tail(shares))

\* impl Aggregate for RelinKeyShare<R2>: the RelinearizationKey's ksk.
R2_aggregate(shares) ==
    IF shares = <<>>
    THEN Err("TooFewValues(0, 1)", 0)
    ELSE LET share == Head(shares)
         IN  IF ~IsSome(share.last_round)
             THEN Err("MissingRound1Copy", 0)
             ELSE LET r1  == Unwrap(share.last_round)
                      sum == R2_fold([h |-> AddVec(share.h0, share.h1),
                                      mism |-> VecMismatch(share.h0, share.h1)],
                                     Tail(shares))
                  IN  Ok([par |-> share.par, c0 |-> sum.h, c1 |-> r1.h1,
                          ciphertext_level |-> 0, ksk_level |-> 0],
                         0, sum.mism)


\* ------------------------------------- single-party BFV scheme (external)

\* Poly::mod_switch_down_next: the element scaled by 1/qlast and rounded,
\* in the context without its last modulus qlast.
PolyModSwitch(a, qlast) ==
    LET c == Centered(a.v, a.q)
    IN  Poly(a.q \div qlast, (2 * c + qlast) \div (2 * qlast))

\* The level of Parameters p whose context has modulus q, if any.
LevelsOfCtx(p, q) == {l \in 0..MaxLevel(p) : CtxQ(p, l) = q}

\* Ciphertext::new(c, par): the components must live in one context, a
\* context of par.
Ciphertext_new(c, par) ==
    IF Len(c) < 2 THEN Err("TooFewValues(c.len(), 2)", 0)
    ELSE IF LevelsOfCtx(par, c[1].q) = {} \/ \E i \in 1..Len(c) : c[i].q # c[1].q
    THEN Err("InvalidContext", 0)
    ELSE Ok([par |-> par, c |-> c, level |-> CHOOSE l \in LevelsOfCtx(par, c[1].q) : TRUE],
            0, FALSE)

\* The modulus switch of a ciphertext below the last level: every component
\* switched down, the level one higher.
Ciphertext_mod_switch(ct) ==
    LET ms == CtxModuli(ct.par, ct.level)
    IN  [ct EXCEPT !.c = [i \in 1..Len(ct.c) |-> PolyModSwitch(ct.c[i], ms[Len(ms)])],
                   !.level = ct.level + 1]

\* Ciphertext::mod_switch_to_next_level: the switch below the last level,
\* nothing at the last level; the call returns Ok in both cases.
mod_switch_to_next_level(c) ==
    IF c.level < MaxLevel(c.par) THEN Ciphertext_mod_switch(c) ELSE c

\* PublicKey::new(sk, rng): an encryption of zero under sk at level 0.
PublicKey_new(skj, r) ==
    LET q == CtxQ(skj.par, 0)
        a == PolyRandom(q, r, 1)
        e == PolySmall(q, r, 2)
    IN  [par |-> skj.par,
         c |-> [par |-> skj.par, level |-> 0,
                c |-> <<PolyAdd(PolyNeg(PolyMul(a, SecretPoly(skj, q))), e), a>>]]

\* Plaintext::to_poly at a level: the message scaled by Q/t, rounded.
Scaled(m, p, l) ==
    LET q == CtxQ(p, l)
    IN  Poly(q, (2 * q * m + PlainMod(p)) \div (2 * PlainMod(p)))

\* The key's ciphertext brought to a level by repeated modulus switching.
RECURSIVE SwitchedTo(_, _)
SwitchedTo(c, level) ==
    IF c.level >= level THEN c ELSE SwitchedTo(Ciphertext_mod_switch(c), level)

\* PublicKey::try_encrypt of message m encoded at a level.
PublicKey_try_encrypt(key, m, level, r) ==
    LET k  == SwitchedTo(key.c, level)
        q  == CtxQ(key.par, level)
        u  == PolySmall(q, r, 1)
        e1 == PolySmall(q, r, 2)
        e2 == PolySmall(q, r, 3)
    IN  [par |-> key.par, level |-> level,
         c |-> <<PolyAdd(PolyAdd(PolyMul(k.c[1], u), e1), Scaled(m, key.par, level)),
                 PolyAdd(PolyMul(k.c[2], u), e2)>>]

\* SecretKey::try_decrypt: c0 + c1*s scaled by t/Q and rounded, modulo t.
SecretKey_try_decrypt(skj, ct) ==
    LET q == ct.c[1].q
        t == PlainMod(ct.par)
        v == Centered(ct.c[1].v + ct.c[2].v * skj.coeffs, q)
    IN  ((2 * t * v + q) \div (2 * q)) % t

\* ------------------------------------------------------- public_key_gen.rs

\* PublicKeyShare::new: p0_share = -(crp*s) + e.
PublicKeyShare_new(skj, a, r) ==
    LET q == CtxQ(skj.par, 0)
        e == PolySmall(q, r, 1)
        s == SecretPoly(skj, q)
    IN  Ok([par |-> skj.par, p0_share |-> PolyAdd(PolyNeg(PolyMul(a, s)), e)],
           RngAfter(r, 1), a.q # q)

RECURSIVE SumPolys(_, _)
SumPolys(acc, ps) ==
    IF ps = <<>> THEN acc
    ELSE SumPolys([v |-> PolyAdd(acc.v, Head(ps)),
                   mism |-> acc.mism \/ CtxMismatch(acc.v, Head(ps))], Tail(ps))

\* Aggregation of PublicKeyShares: the sum p0 of the shares with the CRP a
\* is the collective public key (p0, a).
PublicKeyShare_aggregate(shares, a) ==
    IF shares = <<>>
    THEN Err("TooFewValues(0, 1)", 0)
    ELSE LET share == Head(shares)
             p0    == SumPolys([v |-> share.p0_share, mism |-> FALSE],
                               [i \in 1..(Len(shares) - 1) |-> shares[i + 1].p0_share])
             c     == Ciphertext_new(<<p0.v, a>>, share.par)
         IN  IF c.status = "Err" THEN c
             ELSE Ok([par |-> share.par, c |-> Unwrap(c.val)], 0, p0.mism)

\* DecryptionShare::new: the party's partial term s*c1 + e of a ciphertext.
DecryptionShare_new(skj, c, r) ==
    IF skj.par # c.par
    THEN Err("IncompatibleParameters", r)
    ELSE LET q == CtxQ(c.par, c.level)
         IN  Ok([par |-> c.par, c0 |-> c.c[1],
                 h_share |-> PolyAdd(PolyMul(SecretPoly(skj, q), c.c[2]), PolySmall(q, r, 1))],
                RngAfter(r, 1), FALSE)

\* Aggregation of DecryptionShares: c0 plus the sum of the partial terms,
\* scaled by t/Q and rounded to a plaintext.
DecryptionShare_aggregate(shares) ==
    IF shares = <<>>
    THEN Err("TooFewValues(0, 1)", 0)
    ELSE LET share == Head(shares)
             h     == SumPolys([v |-> share.h_share, mism |-> FALSE],
                               [i \in 1..(Len(shares) - 1) |-> shares[i + 1].h_share])
             q     == share.c0.q
             t     == PlainMod(share.par)
             v     == Centered(PolyAdd(share.c0, h.v).v, q)
         IN  Ok(((2 * t * v + q) \div (2 * q)) % t, 0, h.mism)

\* ---------------------------------------------------- public_key_switch.rs

\* The loop `while pk_ct.level != ct.level { pk_ct.mod_switch_to_next_level()? }`:
\* [c, n, exits], the key's ciphertext, the number of switches that changed
\* it and whether the loop is left.  An iteration that leaves pk_ct as it was
\* while the levels differ is followed by the same iteration, without end.
RECURSIVE LevelLoop(_, _, _)
LevelLoop(c, level, n) ==
    IF c.level = level THEN [c |-> c, n |-> n, exits |-> TRUE]
    ELSE IF mod_switch_to_next_level(c) = c THEN [c |-> c, n |-> n, exits |-> FALSE]
    ELSE LevelLoop(mod_switch_to_next_level(c), level, n + 1)

\* A call that does not return: no value, no error, the rng as it was.
Diverges(r) == [status |-> "Diverges", err |-> "", val |-> None, rng |-> r, mism |-> FALSE]

\* PublicKeySwitchShare::new.
PublicKeySwitchShare_new_LateCheck(skj, public_key, ct, r) ==
    LET loop == LevelLoop(public_key.c, ct.level, 0)
    IN  IF skj.par # public_key.par \/ public_key.par # ct.par
        THEN Err("IncompatibleParameters", RngAfter(r, 3)) @@ [switches |-> loop.n]
        ELSE Ok([par |-> skj.par, c0 |-> ct.c[1],
                 h0_share |-> loop.c.c[1], h1_share |-> loop.c.c[2]],
                RngAfter(r, 3), FALSE) @@ [switches |-> loop.n]

PublicKeySwitchShare_new_NoSwitch(skj, public_key, ct, r) ==
    IF skj.par # public_key.par \/ public_key.par # ct.par
    THEN Err("IncompatibleParameters", r) @@ [switches |-> 0]
    ELSE LET par   == skj.par
             pk_ct == public_key.c
             q     == CtxQ(par, ct.level)
             s     == SecretPoly(skj, q)
             u     == PolySmall(q, r, 1)
             e0    == PolySmall(q, r, 2)
             e1    == PolySmall(q, r, 3)
             h0    == PolyAdd(PolyAdd(PolyMul(pk_ct.c[1], u), PolyMul(s, ct.c[2])), e0)
             h1    == PolyAdd(PolyMul(pk_ct.c[2], u), e1)
         IN  Ok([par |-> par, c0 |-> ct.c[1], h0_share |-> h0, h1_share |-> h1],
                RngAfter(r, 3), FALSE) @@ [switches |-> 0]

PublicKeySwitchShare_new(skj, public_key, ct, r) ==
    IF skj.par # public_key.par \/ public_key.par # ct.par
    THEN Err("IncompatibleParameters", r) @@ [switches |-> 0]
    ELSE LET par   == skj.par
             loop  == LevelLoop(public_key.c, ct.level, 0)
             pk_ct == loop.c
             q     == CtxQ(par, ct.level)
             s     == SecretPoly(skj, q)
             u     == PolySmall(q, r, 1)
             e0    == PolySmall(q, r, 2)
             e1    == PolySmall(q, r, 3)
             h0    == PolyAdd(PolyAdd(PolyMul(pk_ct.c[1], u), PolyMul(s, ct.c[2])), e0)
             h1    == PolyAdd(PolyMul(pk_ct.c[2], u), e1)
         IN  IF ~loop.exits
             THEN Diverges(r) @@ [switches |-> loop.n]
             ELSE Ok([par |-> par, c0 |-> ct.c[1], h0_share |-> h0, h1_share |-> h1],
                     RngAfter(r, 3), FALSE) @@ [switches |-> loop.n]

\* The loop of PublicKeySwitchShare::aggregate over the shares after the first.
RECURSIVE Pks_fold(_, _)
Pks_fold(acc, shares) ==
    IF shares = <<>> THEN acc
    ELSE LET sh == Head(shares)
         IN  Pks_fold([h0 |-> PolyAdd(acc.h0, sh.h0_share),
                       h1 |-> PolyAdd(acc.h1, sh.h1_share),
                       mism |-> acc.mism \/ CtxMismatch(acc.h0, sh.h0_share)
                                         \/ CtxMismatch(acc.h1, sh.h1_share)],
                      Tail(shares))

\* impl Aggregate for PublicKeySwitchShare.
PublicKeySwitchShare_aggregate_NoC0(shares) ==
    IF shares = <<>>
    THEN Err("TooFewValues(0, 1)", 0)
    ELSE LET share == Head(shares)
             sum   == Pks_fold([h0 |-> share.h0_share, h1 |-> share.h1_share,
                                mism |-> FALSE], Tail(shares))
             c     == Ciphertext_new(<<sum.h0, sum.h1>>, share.par)
         IN  IF c.status = "Err" THEN c
             ELSE Ok(Unwrap(c.val), 0, sum.mism)

PublicKeySwitchShare_aggregate_FirstOnly(shares) ==
    IF shares = <<>>
    THEN Err("TooFewValues(0, 1)", 0)
    ELSE LET share == Head(shares)
             c0    == PolyAdd(share.c0, share.h0_share)
             c     == Ciphertext_new(<<c0, share.h1_share>>, share.par)
         IN  IF c.status = "Err" THEN c
             ELSE Ok(Unwrap(c.val), 0, CtxMismatch(share.c0, share.h0_share))

PublicKeySwitchShare_aggregate(shares) ==
    IF shares = <<>>
    THEN Err("TooFewValues(0, 1)", 0)
    ELSE LET share == Head(shares)
             sum   == Pks_fold([h0 |-> share.h0_share, h1 |-> share.h1_share,
                                mism |-> FALSE], Tail(shares))
             c0    == PolyAdd(share.c0, sum.h0)
             c     == Ciphertext_new(<<c0, sum.h1>>, share.par)
         IN  IF c.status = "Err" THEN c
             ELSE Ok(Unwrap(c.val), 0, sum.mism \/ CtxMismatch(share.c0, sum.h0))

\* ------------------------------------------------------------------ crp.rs

\* par.ctx_at_level(level): the Parameters have a context for each level up
\* to their last one.
HasLevel(par, level) == level <= MaxLevel(par)

\* Poly::random(ctx, representation, rng): one draw from the rng, a uniform
\* element of the context in the representation asked for.
Poly_random(q, representation, r) ==
    [q |-> q, v |-> PolyRandom(q, r, 1).v, representation |-> representation]

\* generate_crp_leveled.
generate_crp_leveled(par, level, r) ==
    IF ~HasLevel(par, level)
    THEN Err("NoContextAtLevel", r)
    ELSE Ok(Poly_random(CtxQ(par, level), "Ntt", r), RngAfter(r, 1), FALSE)

\* generate_crp.
generate_crp(par, r) == generate_crp_leveled(par, 0, r)

\* (0..n).map(|_| generate_crp_leveled(par, 0, rng)).collect(): the calls
\* share the caller's generator; the first Err ends the collection.
RECURSIVE crp_collect(_, _, _, _)
crp_collect(par, n, acc, r) ==
    IF n = 0 THEN Ok(acc, r, FALSE)
    ELSE LET out == generate_crp_leveled(par, 0, r)
         IN  IF out.status = "Err" THEN out
             ELSE crp_collect(par, n - 1, Append(acc, Unwrap(out.val)), out.rng)

\* generate_crp_vec.
generate_crp_vec_PerLevel(par, r) == crp_collect(par, MaxLevel(par), <<>>, r)

generate_crp_vec(par, r) == crp_collect(par, Len(Moduli(par)), <<>>, r)

\* ------------------------------------------- relinearization key (external)

\* RelinearizationKey::new_leveled(sk, level, level): a key-switching key
\* from s^2 to s over the context of the level, one pair per modulus.
RelinearizationKey_new_leveled(skj, level, r) ==
    LET ms == CtxModuli(skj.par, level)
        q  == Product(ms)
        s  == SecretPoly(skj, q)
        a  == [i \in 1..Len(ms) |-> PolyRandom(q, r, i)]
    IN  [par |-> skj.par, ciphertext_level |-> level, ksk_level |-> level,
         c1 |-> a,
         c0 |-> [i \in 1..Len(ms) |->
                    PolyAdd(PolyAdd(PolyNeg(PolyMul(a[i], s)),
                                    PolyScale(GetGarner(skj.par, Len(ms), i), PolyMul(s, s))),
                            PolySmall(q, r, Len(ms) + i))]]

\* rk.relinearizes_with_poly(c2): the key switch of c2, decomposed by the
\* key's moduli; it refuses an element outside the key's ciphertext context.
relinearizes_with_poly(rk, c2) ==
    LET ms == CtxModuli(rk.par, rk.ciphertext_level)
        d  == [i \in 1..Len(ms) |-> Poly(c2.q, c2.v % ms[i])]
    IN  IF c2.q # Product(ms)
        THEN Err("KeySwitchContext", 0)
        ELSE Ok(<<SumPolys([v |-> Poly(c2.q, 0), mism |-> FALSE],
                           [i \in 1..Len(ms) |-> PolyMul(rk.c0[i], d[i])]).v,
                  SumPolys([v |-> Poly(c2.q, 0), mism |-> FALSE],
                           [i \in 1..Len(ms) |-> PolyMul(rk.c1[i], d[i])]).v>>,
                0, FALSE)

\* ------------------------------------------------------------ bfv/ops/mul.rs

\* ScalingFactor: a rational number.
ScalingFactor_new(num, den) == [num |-> num, den |-> den]

ScalingFactor_one == ScalingFactor_new(1, 1)

\* Division rounded to the nearest integer.
RoundDiv(a, b) == (2 * a + b) \div (2 * b)

\* Poly::scale by an extender: the centered value times the factor, in the
\* extended basis, which is wide enough to hold every product exactly.
Extend(a, factor) == RoundDiv(Centered(a.v, a.q) * factor.num, factor.den)

\* Poly::scale by the down scaler: back into the base context.
ScaleDown(x, q, factor) == Poly(q, RoundDiv(x * factor.num, factor.den))

\* Multiplicator::new_leveled.
Multiplicator_new_leveled(lhs_scaling_factor, rhs_scaling_factor, extended_basis, post_mul_scaling_factor, level, par) ==
    IF ~HasLevel(par, level)
    THEN Err("NoContextAtLevel", 0)
    ELSE Ok([par |-> par,
             extender_lhs |-> lhs_scaling_factor,
             extender_rhs |-> rhs_scaling_factor,
             down_scaler |-> post_mul_scaling_factor,
             base_ctx |-> CtxQ(par, level),
             mul_ctx |-> extended_basis,
             rk |-> None, mod_switch |-> FALSE, level |-> level], 0, FALSE)

\* Multiplicator::new.
Multiplicator_new(lhs_scaling_factor, rhs_scaling_factor, extended_basis, post_mul_scaling_factor, par) ==
    Multiplicator_new_leveled(lhs_scaling_factor, rhs_scaling_factor, extended_basis,
                              post_mul_scaling_factor, 0, par)

\* Multiplicator::enable_relinearization: [status, err, self].
enable_relinearization(self, rk) ==
    IF ~HasLevel(self.par, rk.ksk_level)
    THEN [status |-> "Err", err |-> "NoContextAtLevel", self |-> self]
    ELSE IF CtxQ(self.par, rk.ksk_level) # self.base_ctx
    THEN [status |-> "Err", err |-> "InvalidRelinKeyContext", self |-> self]
    ELSE [status |-> "Ok", err |-> "", self |-> [self EXCEPT !.rk = Some(rk)]]

\* Multiplicator::enable_mod_switching: [status, err, self].
enable_mod_switching_Unchecked(self) ==
    [status |-> "Ok", err |-> "", self |-> [self EXCEPT !.mod_switch = TRUE]]

enable_mod_switching(self) ==
    IF CtxQ(self.par, MaxLevel(self.par)) = self.base_ctx
    THEN [status |-> "Err", err |-> "LastLevel", self |-> self]
    ELSE [status |-> "Ok", err |-> "", self |-> [self EXCEPT !.mod_switch = TRUE]]

\* The bit size of a modulus.
RECURSIVE BitSize(_)
BitSize(m) == IF m = 0 THEN 0 ELSE 1 + BitSize(m \div 2)

RECURSIVE SumSizes(_)
SumSizes(ms) == IF ms = <<>> THEN 0 ELSE BitSize(Head(ms)) + SumSizes(Tail(ms))

\* generate_prime below the upper bound, again and again: the first n primes
\* the extended basis is filled with.
ExtensionPrimes(n) == SubSeq(<<2147483647, 2147483629, 2147483587>>, 1, n)

\* Multiplicator::default_at_level.
Multiplicator_default_at_level(level, rk) ==
    IF ~HasLevel(rk.par, level)
    THEN Err("NoContextAtLevel", 0)
    ELSE LET ctx            == CtxModuli(rk.par, level)
             modulus_size   == SumSizes(ctx)
             n_moduli       == (modulus_size + 60 + 61) \div 62
             extended_basis == ctx \o ExtensionPrimes(n_moduli)
             new            == Multiplicator_new(
                                   ScalingFactor_one, ScalingFactor_one, extended_basis,
                                   ScalingFactor_new(PlainMod(rk.par), Product(ctx)),
                                   rk.par)
         IN  IF new.status = "Err" THEN new
             ELSE LET en == enable_relinearization(Unwrap(new.val), rk)
                  IN  IF en.status = "Err" THEN Err(en.err, 0)
                      ELSE Ok(en.self, 0, FALSE)

\* Multiplicator::default.
Multiplicator_default(rk) == Multiplicator_default_at_level(0, rk)

\* Multiplicator::multiply.
multiply_SizeFirst(self, lhs, rhs) ==
    IF Len(lhs.c) # 2 \/ Len(rhs.c) # 2
    THEN Err("SizeNot2", 0)
    ELSE IF lhs.par # self.par \/ rhs.par # self.par
    THEN Err("ParametersDiffer", 0)
    ELSE IF lhs.level # self.level \/ rhs.level # self.level
    THEN Err("UnexpectedLevel", 0)
    ELSE LET c00 == Extend(lhs.c[1], self.extender_lhs)
             c01 == Extend(lhs.c[2], self.extender_lhs)
             c10 == Extend(rhs.c[1], self.extender_rhs)
             c11 == Extend(rhs.c[2], self.extender_rhs)
             c0  == ScaleDown(c00 * c10, self.base_ctx, self.down_scaler)
             c1  == ScaleDown(c00 * c11 + c01 * c10, self.base_ctx, self.down_scaler)
             c2  == ScaleDown(c01 * c11, self.base_ctx, self.down_scaler)
             rel == IF IsSome(self.rk)
                    THEN relinearizes_with_poly(Unwrap(self.rk), c2)
                    ELSE Ok(<<>>, 0, FALSE)
             c   == IF IsSome(self.rk)
                    THEN <<PolyAdd(c0, Unwrap(rel.val)[1]), PolyAdd(c1, Unwrap(rel.val)[2])>>
                    ELSE <<c0, c1, c2>>
             ct  == [par |-> self.par, c |-> c, level |-> self.level]
         IN  IF rel.status = "Err" THEN rel
             ELSE Ok(IF self.mod_switch THEN mod_switch_to_next_level(ct) ELSE ct,
                     0, FALSE)

multiply(self, lhs, rhs) ==
    IF lhs.par # self.par \/ rhs.par # self.par
    THEN Err("ParametersDiffer", 0)
    ELSE IF lhs.level # self.level \/ rhs.level # self.level
    THEN Err("UnexpectedLevel", 0)
    ELSE IF Len(lhs.c) # 2 \/ Len(rhs.c) # 2
    THEN Err("SizeNot2", 0)
    ELSE LET c00 == Extend(lhs.c[1], self.extender_lhs)
             c01 == Extend(lhs.c[2], self.extender_lhs)
             c10 == Extend(rhs.c[1], self.extender_rhs)
             c11 == Extend(rhs.c[2], self.extender_rhs)
             c0  == ScaleDown(c00 * c10, self.base_ctx, self.down_scaler)
             c1  == ScaleDown(c00 * c11 + c01 * c10, self.base_ctx, self.down_scaler)
             c2  == ScaleDown(c01 * c11, self.base_ctx, self.down_scaler)
             rel == IF IsSome(self.rk)
                    THEN relinearizes_with_poly(Unwrap(self.rk), c2)
                    ELSE Ok(<<>>, 0, FALSE)
             c   == IF IsSome(self.rk)
                    THEN <<PolyAdd(c0, Unwrap(rel.val)[1]), PolyAdd(c1, Unwrap(rel.val)[2])>>
                    ELSE <<c0, c1, c2>>
             ct  == [par |-> self.par, c |-> c, level |-> self.level]
         IN  IF rel.status = "Err" THEN rel
             ELSE Ok(IF self.mod_switch THEN mod_switch_to_next_level(ct) ELSE ct,
                     0, FALSE)

\* ------------------------------------------------------------------ state

VARIABLES
    sk,     \* sk[j]: the secret key share of party j, [par, coeffs]
    crp,    \* the common random polynomials the callers slice their CRP vector from
    seed,   \* the seed of the run's random number generators
    gen,    \* gen[j]: Option<RelinKeyGenerator> of party j
    r1,     \* r1[j]: Option<RelinKeyShare<R1>>, the last round-1 share of party j
    agg1,   \* Option<RelinKeyShare<R1Aggregated>>, the last round-1 aggregate
    r2,     \* r2[j]: Option<RelinKeyShare<R2>>, the last round-2 share of party j
    calls,  \* calls[j][op]: the successful calls of constructor op by party j
    res,    \* the last call: [op, party, arg, status, err, val, share, rng0, rng,
            \* switches, corrupt]; val is the key or ciphertext an aggregation
            \* returned, share the share a round returned,
            \* rng0 and rng the state of the caller's generator before and after
            \* the call, switches the modulus switches the call made, corrupt
            \* says that an Ok result was computed from operands of different
            \* contexts
    proto,  \* what the run exercises: "relin", "pks", "crp" or "mul"
    target, \* [sk, pk]: the key pair the parties switch a ciphertext to
    p0,     \* p0[j]: Option<PublicKeyShare> of party j
    cpk,    \* Option of the collective key: [key, of], of the parties summed
    ct,     \* Option of the last encryption: [c, m, of], the ciphertext, its
            \* plaintext and the parties of the key it was encrypted under
    pks,    \* pks[j]: Option<PublicKeySwitchShare> of party j
    mul     \* Option<Multiplicator>: the multiplicator the caller holds

relinVars == <<gen, r1, agg1, r2>>

pksVars == <<p0, cpk, ct, pks>>

vars == <<sk, crp, seed, gen, r1, agg1, r2, calls, res, proto, target, p0, cpk, ct, pks, mul>>

\* What the build makes of a call whose ring operations met operands of
\* different contexts: the debug_assert of a debug build panics, a release
\* build computes on.
Builds(out) == IF out.status = "Ok" /\ out.mism THEN {"debug", "release"} ELSE {"release"}

Status(out, build) == IF build = "debug" /\ out.mism THEN "Panic" ELSE out.status

Result(op, j, arg, out, build, r) ==
    [op |-> op, party |-> j, arg |-> arg, status |-> Status(out, build), err |-> out.err,
     val |-> None, share |-> None, rng0 |-> r, rng |-> out.rng, switches |-> 0,
     corrupt |-> (Status(out, build) = "Ok" /\ out.mism)]

\* The generator party j hands to its next call of constructor op: every
\* call gets a generator of its own, seeded from the run's seed.
CallRng(j, op) ==
    LET k == CASE op = "gen" -> 1 [] op = "r1" -> 2 [] op = "r2" -> 3
                  [] op = "p0" -> 4 [] op = "enc" -> 5 [] op = "pks" -> 6 [] OTHER -> 7
        n == IF op = "dec" THEN 0 ELSE calls[j][op]
    IN  (seed + 5 * j + 3 * k + 7 * n) % 16

\* The value a call hands back: the slot keeps its content unless the call
\* returned Ok.
Returned(out, build, old) == IF Status(out, build) = "Ok" THEN out.val ELSE old

\* A party keeps the first share a round returned to it: a share returned by
\* a repeated round is seen in res.share only.
Kept(out, build, old) == IF IsSome(old) THEN old ELSE Returned(out, build, old)

Counted(out, build, j, op) ==
    IF Status(out, build) = "Ok" THEN [calls EXCEPT ![j][op] = @ + 1] ELSE calls

\* Handles of the RelinKeyShare objects that exist.
Handles == ({"r1", "r2"} \X Parties) \cup {<<"agg", 0>>}

\* Handles of the PublicKeyShare and PublicKeySwitchShare objects.
PkHandles == {"p0"} \X Parties

PksHandles == {"pks"} \X Parties

Slot(h) ==
    CASE h[1] = "r1"  -> r1[h[2]]
      [] h[1] = "r2"  -> r2[h[2]]
      [] h[1] = "p0"  -> p0[h[2]]
      [] h[1] = "pks" -> pks[h[2]]
      [] OTHER        -> agg1

Exists(h) == IsSome(Slot(h))

Obj(h) == Unwrap(Slot(h))

Objs(sel) == [i \in 1..Len(sel) |-> Obj(sel[i])]

\* The round marker a parameter's type demands of its argument.
round_2_takes_Any(x) == TRUE

round_2_takes(x) == x.round = "R1Aggregated"

Aggregate_R1_takes(x) == x.round = "R1"

Aggregate_R2_takes(x) == x.round = "R2"

\* The handles of the existing shares each aggregation takes.
TakableR1 == {h \in Handles : Exists(h) /\ Aggregate_R1_takes(Obj(h))}

TakableR2 == {h \in Handles : Exists(h) /\ Aggregate_R2_takes(Obj(h))}

TakablePk == {h \in PkHandles : Exists(h)}

TakablePks == {h \in PksHandles : Exists(h)}

\* -------------------------------------------------------------- operations

\* A party builds its generator over the first n common random polynomials.
GenNew(j, n) ==
    LET r   == CallRng(j, "gen")
        out == RelinKeyGenerator_new(j, sk[j], SubSeq(crp, 1, n), r)
    IN  /\ proto = "relin"
        /\ calls[j].gen < MaxCalls
        /\ gen' = [gen EXCEPT ![j] = Returned(out, "release", @)]
        /\ calls' = Counted(out, "release", j, "gen")
        /\ res' = Result("RelinKeyGenerator::new", j, <<n>>, out, "release", r)
        /\ UNCHANGED <<mul, sk, crp, seed, r1, agg1, r2, proto, target, pksVars>>

\* RelinKeyGenerator::round_1.
Round1(j) ==
    /\ IsSome(gen[j])
    /\ LET g   == Unwrap(gen[j])
           r   == CallRng(j, "r1")
           out == round_1(g, sk[g.sk_share], r)
       IN  \E build \in Builds(out) :
            /\ gen' = [gen EXCEPT ![j] = Some(out.self)]
            /\ r1' = [r1 EXCEPT ![j] = Kept(out, build, @)]
            /\ calls' = IF IsSome(r1[j]) THEN calls ELSE Counted(out, build, j, "r1")
            /\ res' = [Result("round_1", j, <<>>, out, build, r)
                        EXCEPT !.share = Returned(out, build, None)]
    /\ UNCHANGED <<mul, sk, crp, seed, agg1, r2, proto, target, pksVars>>

\* RelinKeyShare::<R1>::aggregate over a sequence of existing shares.
AggregateR1(sel) ==
    /\ proto = "relin"
    /\ \A i \in 1..Len(sel) : Exists(sel[i]) /\ Aggregate_R1_takes(Obj(sel[i]))
    /\ LET out == R1_aggregate(Objs(sel))
       IN  \E build \in Builds(out) :
            /\ agg1' = Returned(out, build, agg1)
            /\ res' = Result("aggregate_R1", 0, sel, out, build, 0)
    /\ UNCHANGED <<mul, sk, crp, seed, gen, r1, r2, calls, proto, target, pksVars>>

\* RelinKeyGenerator::round_2 on an existing aggregate.
Round2(j, h) ==
    /\ IsSome(gen[j])
    /\ Exists(h) /\ round_2_takes(Obj(h))
    /\ LET g   == Unwrap(gen[j])
           r   == CallRng(j, "r2")
           out == round_2(g, sk[g.sk_share], Obj(h), r)
       IN  \E build \in Builds(out) :
            /\ gen' = [gen EXCEPT ![j] = Some(out.self)]
            /\ r2' = [r2 EXCEPT ![j] = Kept(out, build, @)]
            /\ calls' = IF IsSome(r2[j]) THEN calls ELSE Counted(out, build, j, "r2")
            /\ res' = [Result("round_2", j, <<h>>, out, build, r)
                        EXCEPT !.share = Returned(out, build, None)]
    /\ UNCHANGED <<mul, sk, crp, seed, r1, agg1, proto, target, pksVars>>

\* RelinKeyShare::<R2>::aggregate over a sequence of existing shares.
AggregateR2(sel) ==
    /\ proto = "relin"
    /\ \A i \in 1..Len(sel) : Exists(sel[i]) /\ Aggregate_R2_takes(Obj(sel[i]))
    /\ LET out == R2_aggregate(Objs(sel))
       IN  \E build \in Builds(out) :
            res' = [Result("aggregate_R2", 0, sel, out, build, 0)
                        EXCEPT !.val = Returned(out, build, None)]
    /\ UNCHANGED <<mul, sk, crp, seed, gen, r1, agg1, r2, calls, proto, target, pksVars>>

\* PublicKeyShare::new over the first common random polynomial.
PkShareNew(j) ==
    /\ proto = "pks"
    /\ calls[j].p0 < MaxCalls
    /\ LET r   == CallRng(j, "p0")
           out == PublicKeyShare_new(sk[j], crp[1], r)
       IN  \E build \in Builds(out) :
            /\ p0' = [p0 EXCEPT ![j] = Returned(out, build, @)]
            /\ calls' = Counted(out, build, j, "p0")
            /\ res' = Result("PublicKeyShare::new", j, <<>>, out, build, r)
    /\ UNCHANGED <<mul, sk, crp, seed, relinVars, proto, target, cpk, ct, pks>>

\* PublicKeyShare aggregation over a sequence of existing shares; a run
\* sets up one collective key.
AggregatePk(sel) ==
    /\ proto = "pks"
    /\ cpk = None
    /\ \A i \in 1..Len(sel) : sel[i] \in TakablePk
    /\ LET out == PublicKeyShare_aggregate(Objs(sel), crp[1])
       IN  \E build \in Builds(out) :
            /\ cpk' = IF Status(out, build) = "Ok"
                      THEN Some([key |-> Unwrap(out.val), of |-> {sel[i][2] : i \in 1..Len(sel)}])
                      ELSE cpk
            /\ res' = Result("aggregate_pk", 0, sel, out, build, 0)
    /\ UNCHANGED <<mul, sk, crp, seed, relinVars, calls, proto, target, p0, ct, pks>>

\* A party encrypts plaintext m at a level under the collective key.
Encrypt(j, m, level) ==
    /\ proto = "pks"
    /\ IsSome(cpk)
    /\ calls[j].enc < MaxCalls
    /\ LET k == Unwrap(cpk)
           r == CallRng(j, "enc")
       IN  /\ m < PlainMod(k.key.par)
           /\ level <= MaxLevel(k.key.par)
           /\ ct' = Some([c |-> PublicKey_try_encrypt(k.key, m, level, r), m |-> m, of |-> k.of])
           /\ calls' = [calls EXCEPT ![j].enc = @ + 1]
           /\ res' = Result("try_encrypt", j, <<m, level>>, Ok(0, RngAfter(r, 3), FALSE), "release", r)
    /\ UNCHANGED <<mul, sk, crp, seed, relinVars, proto, target, p0, cpk, pks>>

\* The target public key is advanced to the next level.
PublicKeyNextLevel ==
    /\ proto = "pks"
    /\ target.pk.c.level < MaxLevel(target.pk.par)
    /\ target' = [target EXCEPT !.pk.c = mod_switch_to_next_level(@)]
    /\ res' = Result("PublicKey::next_level", 0, <<>>, Ok(0, 0, FALSE), "release", 0)
    /\ UNCHANGED <<mul, sk, crp, seed, relinVars, calls, proto, p0, cpk, ct, pks>>

\* PublicKeySwitchShare::new of party j for the target key and the ciphertext.
PksNew(j) ==
    /\ proto = "pks"
    /\ IsSome(ct)
    /\ calls[j].pks < MaxCalls
    /\ LET r   == CallRng(j, "pks")
           out == PublicKeySwitchShare_new(sk[j], target.pk, Unwrap(ct).c, r)
       IN  /\ pks' = [pks EXCEPT ![j] = Returned(out, "release", @)]
           /\ calls' = Counted(out, "release", j, "pks")
           /\ res' = [Result("PublicKeySwitchShare::new", j, <<>>, out, "release", r)
                        EXCEPT !.switches = out.switches]
    /\ UNCHANGED <<mul, sk, crp, seed, relinVars, proto, target, p0, cpk, ct>>

\* PublicKeySwitchShare::aggregate over a sequence of existing shares.
AggregatePks(sel) ==
    /\ proto = "pks"
    /\ \A i \in 1..Len(sel) : sel[i] \in TakablePks
    /\ LET out == PublicKeySwitchShare_aggregate(Objs(sel))
       IN  \E build \in Builds(out) :
            res' = [Result("aggregate_pks", 0, sel, out, build, 0)
                        EXCEPT !.val = Returned(out, build, None)]
    /\ UNCHANGED <<mul, sk, crp, seed, relinVars, calls, proto, target, pksVars>>

\* The parties of sel build their DecryptionShares of the last ciphertext and
\* the shares are aggregated in that order.
AggregateDec(sel) ==
    /\ proto = "pks"
    /\ IsSome(ct)
    /\ \A i \in 1..Len(sel) : sk[sel[i]].par = Unwrap(ct).c.par
    /\ LET shares == [i \in 1..Len(sel) |->
                        Unwrap(DecryptionShare_new(sk[sel[i]], Unwrap(ct).c,
                                                   CallRng(sel[i], "dec")).val)]
           out    == DecryptionShare_aggregate(shares)
       IN  res' = [Result("aggregate_dec", 0, sel, out, "release", 0)
                        EXCEPT !.val = Returned(out, "release", None)]
    /\ UNCHANGED <<mul, sk, crp, seed, relinVars, calls, proto, target, pksVars>>

\* A caller draws one common random polynomial, at level 0 or at a level.
GenerateCrp(p, r) ==
    /\ proto = "crp"
    /\ LET out == generate_crp(p, r)
       IN  res' = [Result("generate_crp", 0, <<p>>, out, "release", r)
                        EXCEPT !.val = out.val]
    /\ UNCHANGED <<mul, sk, crp, seed, relinVars, calls, proto, target, pksVars>>

GenerateCrpLeveled(p, level, r) ==
    /\ proto = "crp"
    /\ LET out == generate_crp_leveled(p, level, r)
       IN  res' = [Result("generate_crp_leveled", 0, <<p, level>>, out, "release", r)
                        EXCEPT !.val = out.val]
    /\ UNCHANGED <<mul, sk, crp, seed, relinVars, calls, proto, target, pksVars>>

\* A caller draws the CRP vector of the relinearization key generation.
GenerateCrpVec(p, r) ==
    /\ proto = "crp"
    /\ LET out == generate_crp_vec(p, r)
       IN  res' = [Result("generate_crp_vec", 0, <<p>>, out, "release", r)
                        EXCEPT !.val = out.val]
    /\ UNCHANGED <<mul, sk, crp, seed, relinVars, calls, proto, target, pksVars>>

\* The relinearization key of the last party's secret key at a level.
RkAt(klevel) == RelinearizationKey_new_leveled(sk[NumParties], klevel, seed + 1)

\* The Parameters in use.
ParsInUse == {sk[j].par : j \in Parties}

\* A ciphertext of n components at a level.
CiphertextOf(p, level, n) ==
    [par |-> p, level |-> level,
     c |-> [i \in 1..n |-> PolyRandom(CtxQ(p, level), seed, i)]]

\* The ciphertexts a caller hands to multiply: of both sizes, every level
\* and all Parameters in use.
Ciphertexts ==
    UNION { { CiphertextOf(p, level, n) : level \in 0..MaxLevel(p), n \in 2..3 } :
            p \in ParsInUse }

\* The outcome of a call without an rng, as a call result.
MulResult(op, arg, status, err) ==
    [op |-> op, party |-> 0, arg |-> arg, status |-> status, err |-> err,
     val |-> None, share |-> None, rng0 |-> 0, rng |-> 0, switches |-> 0,
     corrupt |-> FALSE]

\* Multiplicator::new_leveled with the scaling factors and the extended
\* basis of the default strategy for the level.
MulNewLeveled(p, level) ==
    /\ proto = "mul"
    /\ LET l   == IF HasLevel(p, level) THEN level ELSE 0
           out == Multiplicator_new_leveled(
                      ScalingFactor_one, ScalingFactor_one,
                      CtxModuli(p, l) \o ExtensionPrimes(2),
                      ScalingFactor_new(PlainMod(p), CtxQ(p, l)), level, p)
       IN  /\ mul' = Returned(out, "release", mul)
           /\ res' = MulResult("Multiplicator::new_leveled", <<p, level>>, out.status, out.err)
    /\ UNCHANGED <<sk, crp, seed, relinVars, calls, proto, target, pksVars>>

\* Multiplicator::default with the key of a level.
MulDefault(klevel) ==
    /\ proto = "mul"
    /\ HasLevel(sk[NumParties].par, klevel)
    /\ LET out == Multiplicator_default(RkAt(klevel))
       IN  /\ mul' = Returned(out, "release", mul)
           /\ res' = MulResult("Multiplicator::default", <<0, klevel>>, out.status, out.err)
    /\ UNCHANGED <<sk, crp, seed, relinVars, calls, proto, target, pksVars>>

\* Multiplicator::default_at_level with the key of a level.
MulDefaultAtLevel(level, klevel) ==
    /\ proto = "mul"
    /\ HasLevel(sk[NumParties].par, klevel)
    /\ LET out == Multiplicator_default_at_level(level, RkAt(klevel))
       IN  /\ mul' = Returned(out, "release", mul)
           /\ res' = MulResult("Multiplicator::default_at_level", <<level, klevel>>,
                               out.status, out.err)
    /\ UNCHANGED <<sk, crp, seed, relinVars, calls, proto, target, pksVars>>

\* Multiplicator::enable_relinearization with the key of a level.
MulEnableRelinearization(klevel) ==
    /\ proto = "mul"
    /\ IsSome(mul)
    /\ HasLevel(sk[NumParties].par, klevel)
    /\ LET out == enable_relinearization(Unwrap(mul), RkAt(klevel))
       IN  /\ mul' = Some(out.self)
           /\ res' = MulResult("enable_relinearization", <<klevel>>, out.status, out.err)
    /\ UNCHANGED <<sk, crp, seed, relinVars, calls, proto, target, pksVars>>

\* Multiplicator::enable_mod_switching.
MulEnableModSwitching ==
    /\ proto = "mul"
    /\ IsSome(mul)
    /\ LET out == enable_mod_switching(Unwrap(mul))
       IN  /\ mul' = Some(out.self)
           /\ res' = MulResult("enable_mod_switching", <<>>, out.status, out.err)
    /\ UNCHANGED <<sk, crp, seed, relinVars, calls, proto, target, pksVars>>

\* Multiplicator::multiply.
MulMultiply(lhs, rhs) ==
    /\ proto = "mul"
    /\ IsSome(mul)
    /\ LET out == multiply(Unwrap(mul), lhs, rhs)
       IN  res' = [MulResult("multiply", <<lhs, rhs>>, out.status, out.err)
                        EXCEPT !.val = out.val]
    /\ UNCHANGED <<mul, sk, crp, seed, relinVars, calls, proto, target, pksVars>>

\* ---------------------------------------------------------- specification

\* SecretKey::random(par, rng): a ternary secret key.
SecretKey_random(p, r) == [par |-> p, coeffs |-> (RngAfter(r, 1) % 3) - 1]

\* Everything random is drawn from generators seeded by the caller; the last
\* party may hold a key of other Parameters than the rest.
Init ==
    /\ seed \in Seeds
    /\ crp = [i \in 1..MaxCrpLen |-> PolyRandom(CtxQ("A", 0), seed, i)]
    /\ \E p \in ParIds :
        sk = [j \in Parties |->
                SecretKey_random(IF j = NumParties THEN p ELSE "A", 3 * seed + 7 * j)]
    /\ gen = [j \in Parties |-> None]
    /\ r1 = [j \in Parties |-> None]
    /\ agg1 = None
    /\ r2 = [j \in Parties |-> None]
    /\ calls = [j \in Parties |->
                    [gen |-> 0, r1 |-> 0, r2 |-> 0, p0 |-> 0, enc |-> 0, pks |-> 0]]
    /\ res = [op |-> "init", party |-> 0, arg |-> <<>>, status |-> "Ok", err |-> "",
              val |-> None, share |-> None, rng0 |-> 0, rng |-> 0, switches |-> 0,
              corrupt |-> FALSE]
    /\ proto \in {"relin", "pks", "crp", "mul"}
    /\ target = LET s == SecretKey_random("A", seed + 11)
                IN  [sk |-> s, pk |-> PublicKey_new(s, seed + 13)]
    /\ p0 = [j \in Parties |-> None]
    /\ cpk = None
    /\ ct = None
    /\ pks = [j \in Parties |-> None]
    /\ mul = None

Next ==
    \/ \E j \in Parties, n \in 0..MaxCrpLen : GenNew(j, n)
    \/ \E j \in Parties : Round1(j)
    \/ \E sel \in InjSeqs(TakableR1) : AggregateR1(sel)
    \/ \E j \in Parties, h \in Handles : Round2(j, h)
    \/ \E sel \in InjSeqs(TakableR2) : AggregateR2(sel)
    \/ \E j \in Parties : PkShareNew(j)
    \/ \E sel \in InjSeqs(TakablePk) : AggregatePk(sel)
    \/ \E j \in Parties, m \in 0..MaxPlain, level \in 0..MaxLevels : Encrypt(j, m, level)
    \/ PublicKeyNextLevel
    \/ \E j \in Parties : PksNew(j)
    \/ \E sel \in InjSeqs(TakablePks) : AggregatePks(sel)
    \/ \E sel \in InjSeqs(Parties) : AggregateDec(sel)
    \/ \E p \in ParIds, r \in Seeds : GenerateCrp(p, r)
    \/ \E p \in ParIds, level \in 0..(MaxLevels + 1), r \in Seeds :
            GenerateCrpLeveled(p, level, r)
    \/ \E p \in ParIds, r \in Seeds : GenerateCrpVec(p, r)
    \/ \E p \in ParsInUse, level \in 0..(MaxLevels + 1) : MulNewLeveled(p, level)
    \/ \E klevel \in 0..MaxLevels : MulDefault(klevel)
    \/ \E level \in 0..(MaxLevels + 1), klevel \in 0..MaxLevels :
            MulDefaultAtLevel(level, klevel)
    \/ \E klevel \in 0..MaxLevels : MulEnableRelinearization(klevel)
    \/ MulEnableModSwitching
    \/ \E lhs, rhs \in Ciphertexts : MulMultiply(lhs, rhs)

Spec == Init /\ [][Next]_vars


\* -------------------------------------------- properties: relin key generation

R2Handles == {"r2"} \X Parties

Range(f) == {f[i] : i \in DOMAIN f}

\* The last call was a final aggregation that returned a key.
KeyReturned == res.op = "aggregate_R2" /\ res.status = "Ok" /\ IsSome(res.val)

\* C1: a RelinearizationKey comes only from aggregating round-2 shares, a
\* round-2 share only from round_2 applied to a RelinKeyShare<R1Aggregated>,
\* and an R1Aggregated object only from aggregating round-1 shares; no key
\* exists before a round-1 aggregation, and no raw round-1 share is inside a
\* round-2 share or among the inputs of a final aggregation.
C1_Inv ==
    /\ (IsSome(res.val) /\ proto = "relin") => KeyReturned /\ IsSome(agg1)
    /\ KeyReturned => \A h \in Range(res.arg) : Obj(h).round = "R2"
    /\ \A j \in Parties :
          /\ IsSome(r1[j]) => Unwrap(r1[j]).round = "R1"
          /\ IsSome(r2[j]) =>
                /\ Unwrap(r2[j]).round = "R2"
                /\ IsSome(agg1)
                /\ \A x \in Range(Unwrap(r2[j]).last_round) : x.round = "R1Aggregated"
    /\ IsSome(agg1) => Unwrap(agg1).round = "R1Aggregated"

C1_Step ==
    /\ \A j \in Parties :
          /\ r2'[j] # r2[j] =>
                /\ res'.op = "round_2" /\ res'.party = j
                /\ Obj(res'.arg[1]).round = "R1Aggregated"
          /\ r1'[j] # r1[j] => res'.op = "round_1" /\ res'.party = j
    /\ agg1' # agg1 =>
          /\ res'.op = "aggregate_R1"
          /\ \A h \in Range(res'.arg) : Obj(h).round = "R1"

\* C1: the type-state order holds of every state and of every call.
C1_TypeStateOrder == []C1_Inv /\ [][C1_Step]_vars

\* C1 witness: a key aggregated from the round-2 shares of all parties.
C1_Witness == KeyReturned /\ Range(res.arg) = R2Handles

\* C9: every round-2 share embeds the R1Aggregated object its round_2 call
\* was given, round-1 shares and aggregates embed nothing, and the final
\* aggregation never reports a missing round-1 copy.
C9_Inv ==
    /\ \A j \in Parties :
          /\ IsSome(r1[j]) => Unwrap(r1[j]).last_round = None
          /\ IsSome(r2[j]) => IsSome(Unwrap(r2[j]).last_round)
    /\ IsSome(agg1) => Unwrap(agg1).last_round = None
    /\ res.err # "MissingRound1Copy"

C9_Step ==
    (res'.op = "round_2" /\ res'.status = "Ok" /\ res' # res) =>
        /\ IsSome(r2'[res'.party])
        /\ Unwrap(res'.share).last_round = Slot(res'.arg[1])

\* C9: the embedded copies are right in every state and after every round_2.
C9_EmbeddedCopy == []C9_Inv /\ [][C9_Step]_vars

\* C9 witness: a final aggregation succeeded on a share that embeds the
\* current round-1 aggregate.
C9_Witness ==
    /\ KeyReturned
    /\ \E j \in Parties : IsSome(r2[j]) /\ Unwrap(r2[j]).last_round = agg1

\* C8: RelinKeyGenerator::new fails on a CRP vector whose length is not the
\* number of level-0 moduli, whatever the secret key's coefficients, without
\* drawing from the rng and without returning a generator; the constructor
\* of a round-1 share makes the same check before it computes h0 and h1.
C8_Inv ==
    \A j \in Parties, n \in 0..MaxCrpLen :
        LET c == SubSeq(crp, 1, n)
            r == CallRng(j, "gen")
        IN  n # Len(Moduli(sk[j].par)) =>
              /\ \A k \in {-1, 0, 1} :
                    RelinKeyGenerator_new(j, [sk[j] EXCEPT !.coeffs = k], c, r)
                        = Err("CrpSize", r)
              /\ \A rr \in 0..15 :
                    LET o == RelinKeyShare_R1_new(sk[j], c, PolySmall(CtxQ(sk[j].par, 0), rr, 1), rr)
                    IN  o.status = "Err" /\ o.rng = rr /\ o.val = None

C8_Step ==
    (res'.op = "RelinKeyGenerator::new" /\ res' # res) =>
        LET j == res'.party
            n == res'.arg[1]
        IN  IF n # Len(Moduli(sk[j].par))
            THEN res'.status = "Err" /\ res'.rng = res'.rng0 /\ gen' = gen
            ELSE res'.status = "Ok" /\ IsSome(gen'[j])

\* C8: the CRP length check holds of every state and of every call.
C8_CrpLengthCheck == []C8_Inv /\ [][C8_Step]_vars

\* C8 witness: a generator was refused for its CRP length and the rng is as
\* it was handed in.
C8_Witness ==
    /\ res.op = "RelinKeyGenerator::new" /\ res.status = "Err"
    /\ res.rng = res.rng0
    /\ res.arg[1] # Len(Moduli(sk[res.party].par))

\* The parties ran the protocol as meant: one Parameters, every generator
\* over the same CRP vector, the round-1 shares of all parties aggregated,
\* every round-2 share built from that aggregate, all of them aggregated.
HonestRelinRun ==
    /\ KeyReturned
    /\ Len(res.arg) = NumParties /\ Range(res.arg) = R2Handles
    /\ \A j \in Parties :
          /\ sk[j].par = "A"
          /\ IsSome(gen[j]) /\ IsSome(r1[j]) /\ IsSome(r2[j])
          /\ Unwrap(r2[j]).last_round = agg1
    /\ IsSome(agg1)
    /\ agg1 = R1_aggregate([j \in Parties |-> Unwrap(r1[j])]).val

RECURSIVE SumOver(_, _)
SumOver(f, S) ==
    IF S = {} THEN 0 ELSE LET x == CHOOSE y \in S : TRUE IN f[x] + SumOver(f, S \ {x})

\* The collective secret S = s_1 + ... + s_N.
CollectiveSecret == SumOver([j \in Parties |-> sk[j].coeffs], Parties)

\* The noise the protocol's sampled errors may add to a key component.
RelinNoiseBound == 2 * NumParties * NumParties + 2 * NumParties

\* C2: the key (c0, c1) of an honest two-round run is a relinearization key
\* for the collective secret S: c0[i] + c1[i]*S = w_i*S^2 up to small noise,
\* for every modulus index i.
C2_ValidRelinKey ==
    HonestRelinRun =>
        LET key == Unwrap(res.val)
            S   == CollectiveSecret
            Q   == CtxQ("A", 0)
        IN  \A i \in 1..Len(key.c0) :
                Abs(Centered(key.c0[i].v + key.c1[i].v * S
                             - GetGarner("A", Len(key.c0), i) * S * S, Q))
                    <= RelinNoiseBound


\* ------------------------------------------------ properties: key switching

\* The last call aggregated, in some order, the switch shares that all
\* parties built for the last ciphertext and the target key; the ciphertext
\* is an encryption under the collective key of all parties.
HonestPksRun ==
    /\ res.op = "aggregate_pks"
    /\ Len(res.arg) = NumParties /\ Range(res.arg) = PksHandles
    /\ IsSome(ct) /\ Unwrap(ct).of = Parties
    /\ \A j \in Parties :
          /\ sk[j].par = target.pk.par
          /\ \E r \in RngStates :
                pks[j] = PublicKeySwitchShare_new(sk[j], target.pk, Unwrap(ct).c, r).val

\* C3: the aggregate of the N shares PublicKeySwitchShare::new(s_j, pk_out, ct),
\* for ct an encryption of m at any level under the collective key of the N
\* parties, is a ciphertext that decrypts to m under sk_out.
C3_KeySwitchRoundTrip ==
    HonestPksRun =>
        /\ res.status = "Ok"
        /\ IsSome(res.val)
        /\ Unwrap(res.val).level = Unwrap(ct).c.level
        /\ SecretKey_try_decrypt(target.sk, Unwrap(res.val)) = Unwrap(ct).m

\* C3 witness: a round trip of the plaintext 1 at the last level, to a
\* target key with a nonzero secret.
C3_Witness ==
    /\ HonestPksRun
    /\ res.status = "Ok"
    /\ Unwrap(ct).m = 1 /\ Unwrap(ct).c.level = MaxLevel(target.pk.par)
    /\ target.sk.coeffs # 0
    /\ SecretKey_try_decrypt(target.sk, Unwrap(res.val)) = 1

\* The three arguments of party j's PublicKeySwitchShare::new reference
\* equal Parameters.
PksParametersAgree(j) ==
    sk[j].par = target.pk.par /\ target.pk.par = Unwrap(ct).c.par

C7_Inv ==
    \A j \in Parties : IsSome(pks[j]) => Unwrap(pks[j]).par = sk[j].par

C7_Step ==
    (res'.op = "PublicKeySwitchShare::new" /\ ~PksParametersAgree(res'.party)) =>
        /\ res'.status = "Err"
        /\ res'.rng = res'.rng0
        /\ res'.switches = 0
        /\ res'.val = None
        /\ pks' = pks

\* C7: PublicKeySwitchShare::new fails when the secret-key share, the public
\* key and the ciphertext do not reference equal Parameters, with no draw
\* from the rng, no modulus switch and no share.
C7_ParametersChecked == []C7_Inv /\ [][C7_Step]_vars

\* C7 witness: the share of a ciphertext at level 1 of other Parameters was
\* refused to a party whose key matches the target key.
C7_Witness ==
    /\ res.op = "PublicKeySwitchShare::new" /\ res.status = "Err"
    /\ res.rng = res.rng0
    /\ sk[res.party].par = target.pk.par
    /\ Unwrap(ct).c.par # target.pk.par
    /\ Unwrap(ct).c.level = 1
    /\ pks[res.party] = None

AggregateOps == {"aggregate_pk", "aggregate_pks", "aggregate_R1", "aggregate_R2", "aggregate_dec"}

C5_Inv ==
    (res.op \in AggregateOps /\ res.arg = <<>>) =>
        /\ res.status = "Err"
        /\ res.err = "TooFewValues(0, 1)"
        /\ res.val = None

C5_Step ==
    (res'.op \in AggregateOps /\ res'.arg = <<>>) => agg1' = agg1 /\ cpk' = cpk

\* C5: aggregate on an empty sequence returns TooFewValues(0, 1) and no
\* output, for PublicKeyShare, PublicKeySwitchShare, RelinKeyShare<R1>,
\* RelinKeyShare<R2> and DecryptionShare.
C5_EmptyRefused == []C5_Inv /\ [][C5_Step]_vars

\* C5 witness: an empty aggregation of switch shares was refused while
\* shares of all parties existed.
C5_Witness ==
    /\ res.op = "aggregate_pks" /\ res.arg = <<>>
    /\ res.err = "TooFewValues(0, 1)"
    /\ TakablePks = PksHandles

\* --------------------------------------------- properties: every aggregate

\* Two shares among the aggregated ones were produced under different
\* Parameters.
MixedParameters(sel) == \E a, b \in Range(sel) : Obj(a).par # Obj(b).par

\* C4: aggregating PublicKeySwitchShares, round-1 shares or round-2 shares
\* produced under two distinct Parameters returns a parameter-mismatch error
\* and no output.
C4_MixedParametersRefused ==
    (res.op \in {"aggregate_pks", "aggregate_R1", "aggregate_R2"} /\ MixedParameters(res.arg)) =>
        /\ res.status = "Err"
        /\ res.err = "ParameterMismatch"
        /\ res.val = None

\* C10: every call ends in Ok or a typed Err, never in a panic and never in
\* an output computed from operands that do not belong together.
C10_OkOrTypedErr == res.status \in {"Ok", "Err"} /\ ~res.corrupt

\* The orderings of one set of shares.
SameShares(a, b) == Range(a) = Range(b)

\* The shares were all produced under the same Parameters.
OneParameters(sel) == ~MixedParameters(sel)

\* What each aggregate takes from its first share alone.
HeadR1(x) == <<x.par>>

HeadR2(x) == <<x.par, Unwrap(x.last_round).h1>>

HeadPks(x) == <<x.par, x.c0>>

\* The original statement of C6, for shares of one Parameters (the only ones
\* an aggregate is meant to accept): every ordering of the same shares
\* aggregates to the same output.
C6_OrderIndependent ==
    /\ \A a, b \in InjSeqs(TakableR1) :
          (SameShares(a, b) /\ OneParameters(a)) =>
              R1_aggregate(Objs(a)) = R1_aggregate(Objs(b))
    /\ \A a, b \in InjSeqs(TakableR2) :
          (SameShares(a, b) /\ OneParameters(a)) =>
              R2_aggregate(Objs(a)) = R2_aggregate(Objs(b))
    /\ \A a, b \in InjSeqs(TakablePks) :
          (SameShares(a, b) /\ OneParameters(a)) =>
              PublicKeySwitchShare_aggregate(Objs(a)) = PublicKeySwitchShare_aggregate(Objs(b))

\* C6, amended: two orderings of the same shares aggregate to the same
\* output when their first shares agree on what the aggregate copies from
\* the first share: the Parameters, and c0 of a PublicKeySwitchShare or the
\* h1 of the embedded round-1 aggregate of a round-2 share.
C6_OrderIndependentGivenHead ==
    /\ \A a, b \in InjSeqs(TakableR1) :
          (SameShares(a, b) /\ a # <<>> /\ HeadR1(Obj(a[1])) = HeadR1(Obj(b[1]))) =>
              R1_aggregate(Objs(a)) = R1_aggregate(Objs(b))
    /\ \A a, b \in InjSeqs(TakableR2) :
          (SameShares(a, b) /\ a # <<>> /\ HeadR2(Obj(a[1])) = HeadR2(Obj(b[1]))) =>
              R2_aggregate(Objs(a)) = R2_aggregate(Objs(b))
    /\ \A a, b \in InjSeqs(TakablePks) :
          (SameShares(a, b) /\ a # <<>> /\ HeadPks(Obj(a[1])) = HeadPks(Obj(b[1]))) =>
              PublicKeySwitchShare_aggregate(Objs(a)) = PublicKeySwitchShare_aggregate(Objs(b))

\* C6 witness: a key was aggregated from the differing round-2 shares of all
\* parties, and the other order of the same shares gives the same key.
C6_Witness ==
    /\ KeyReturned
    /\ Len(res.arg) = NumParties /\ NumParties > 1
    /\ Obj(res.arg[1]) # Obj(res.arg[2])
    /\ HeadR2(Obj(res.arg[1])) = HeadR2(Obj(res.arg[2]))
    /\ \E b \in InjSeqs(TakableR2) :
          /\ SameShares(res.arg, b) /\ b # res.arg
          /\ R2_aggregate(Objs(b)).val = res.val

\* ------------------------------------------ properties: the ephemeral mask

RoundOps == {"round_1", "round_2"}

\* The last call was a round that returned a share.
RoundReturned == res.op \in RoundOps /\ res.status = "Ok" /\ IsSome(res.share)

\* The share a party holds of the round the last call ran.
HeldShare == IF res.op = "round_1" THEN r1[res.party] ELSE r2[res.party]

\* C11: the mask u of a generator builds at most one round-1 share and at
\* most one round-2 share: a round never returns a second share of a
\* generator that already emitted one of that round.
C11_NoMaskReplay == RoundReturned => res.share = HeldShare

\* C12: once round_2 has returned for a generator its mask u is gone: no
\* later round_1 or round_2 on that generator succeeds.
C12_MaskDestroyed ==
    [][(res'.op \in RoundOps /\ IsSome(r2[res'.party])) => res'.status # "Ok"]_vars


\* ------------------------------------ properties: common random polynomials

\* The last call returned a CRP vector.
CrpVecReturned == res.op = "generate_crp_vec" /\ res.status = "Ok" /\ IsSome(res.val)

\* An element in evaluation representation over the level-0 context of par.
IsLevel0Ntt(x, par) == x.q = CtxQ(par, 0) /\ x.representation = "Ntt" /\ x.v \in 0..(x.q - 1)

\* C13: generate_crp_vec returns one element per modulus of the Parameters,
\* each in Ntt representation over the level-0 context, the i-th drawn by the
\* i-th step of the caller's rng, which ends one step further per element;
\* generate_crp returns such an element, as generate_crp_leveled does at
\* level 0.
C13_CrpVector ==
    /\ res.op = "generate_crp_vec" =>
          /\ CrpVecReturned
          /\ LET par == res.arg[1]
                 vec == Unwrap(res.val)
             IN  /\ Len(vec) = Len(Moduli(par))
                 /\ \A i \in 1..Len(vec) :
                       /\ IsLevel0Ntt(vec[i], par)
                       /\ vec[i].v = PolyRandom(CtxQ(par, 0), RngAfter(res.rng0, i - 1), 1).v
                 /\ res.rng = RngAfter(res.rng0, Len(vec))
    /\ (res.op = "generate_crp" \/ (res.op = "generate_crp_leveled" /\ res.arg[2] = 0)) =>
          /\ res.status = "Ok"
          /\ IsLevel0Ntt(Unwrap(res.val), res.arg[1])
          /\ res.rng = RngAfter(res.rng0, 1)

\* C13 witness: a vector of two different elements for a chain of two moduli.
C13_Witness ==
    /\ CrpVecReturned
    /\ Len(Moduli(res.arg[1])) = 2
    /\ Len(Unwrap(res.val)) = 2
    /\ Unwrap(res.val)[1].v # Unwrap(res.val)[2].v


\* ------------------------------------------------ properties: Multiplicator

\* The last call was Multiplicator::default_at_level; the multiplicator the
\* caller holds is the one it returned.
DefaultAtLevelReturned ==
    res.op = "Multiplicator::default_at_level" /\ res.status = "Ok" /\ IsSome(mul)

\* C14: Multiplicator::default_at_level(level, rk) returns a multiplicator
\* that operates at `level`: its base context is the context of the
\* Parameters at that level, its level field is `level`, and it relinearizes
\* with rk.
C14_DefaultAtLevel ==
    DefaultAtLevelReturned =>
        LET level == res.arg[1]
            rk    == RkAt(res.arg[2])
            m     == Unwrap(mul)
        IN  /\ m.par = rk.par
            /\ m.base_ctx = CtxQ(rk.par, level)
            /\ m.level = level
            /\ m.rk = Some(rk)

\* The base context of a multiplicator is the context of the last level.
AtLastLevel(m) == m.base_ctx = CtxQ(m.par, MaxLevel(m.par))

C15_Inv ==
    /\ IsSome(mul) =>
          /\ Unwrap(mul).mod_switch => ~AtLastLevel(Unwrap(mul))
          /\ (res.op = "multiply" /\ res.status = "Ok") =>
                Unwrap(res.val).level =
                    Unwrap(mul).level + (IF Unwrap(mul).mod_switch THEN 1 ELSE 0)
    /\ (res.op \in {"Multiplicator::default", "Multiplicator::new_leveled",
                    "Multiplicator::default_at_level"} /\ res.status = "Ok") =>
          ~Unwrap(mul).mod_switch

C15_Step ==
    res'.op = "enable_mod_switching" =>
        IF AtLastLevel(Unwrap(mul))
        THEN res'.status = "Err" /\ mul' = mul /\ ~Unwrap(mul').mod_switch
        ELSE res'.status = "Ok" /\ mul' = Some([Unwrap(mul) EXCEPT !.mod_switch = TRUE])

\* C15: enable_mod_switching fails and leaves the flag false when the base
\* context is the last level and sets the flag otherwise; a successful
\* multiply returns a ciphertext one level above the multiplicator's level
\* when the flag is set and at the multiplicator's level when it is not.
C15_ModSwitching == []C15_Inv /\ [][C15_Step]_vars

\* C15 witness: a relinearizing level-0 multiplicator with modulus switching
\* multiplied two ciphertexts to one at level 1.
C15_Witness ==
    /\ res.op = "multiply" /\ res.status = "Ok"
    /\ IsSome(mul) /\ Unwrap(mul).mod_switch /\ IsSome(Unwrap(mul).rk)
    /\ Unwrap(mul).level = 0
    /\ Unwrap(res.val).level = 1


\* ------------------------------------- properties: the algebra of the rounds

\* The Garner weight of the i-th modulus of the chain of Parameters.
WeightOf(par, i) == IF par = "C" THEN GarnerC[i] ELSE GarnerA[i]

\* The k-th error coefficient drawn from the rng the last call was handed.
Drawn(k) == (RngAfter(res.rng0, k) % 3) - 1

\* C17: round_1 on a generator with secret s, mask u and a CRP vector of
\* length L, the number of moduli, returns a share whose h0 and h1 have L
\* entries each, h0[i] = CRP[i]*u + w_i*s + e_i and h1[i] = CRP[i]*s + e'_i
\* in the ring of the level-0 context, with w_i the Garner weight of modulus
\* i and the 2L errors drawn one after the other from the caller's rng.
C17_RoundOneShare ==
    res.op = "round_1" =>
        LET g == Unwrap(gen[res.party])
            s == sk[g.sk_share]
            q == CtxQ(s.par, 0)
            L == Len(g.crp)
        IN  /\ L = Len(Moduli(s.par))
            /\ res.status = "Ok" /\ IsSome(res.share)
            /\ Len(Unwrap(res.share).h0) = L
            /\ Len(Unwrap(res.share).h1) = L
            /\ \A i \in 1..L :
                  /\ Unwrap(res.share).h0[i] =
                        Poly(q, g.crp[i].v * g.u.v + WeightOf(s.par, i) * s.coeffs + Drawn(i))
                  /\ Unwrap(res.share).h1[i] =
                        Poly(q, g.crp[i].v * s.coeffs + Drawn(L + i))
            /\ res.rng = RngAfter(res.rng0, 2 * L)

\* C18: round_2 on a generator with secret s and mask u, given an aggregated
\* round-1 object, returns a share with h0'[i] = agg_h0[i]*s + e_i and
\* h1'[i] = agg_h1[i]*(u - s) + e'_i in the ring of the level-0 context, of
\* the vector lengths of the aggregate, the errors drawn one after the other
\* from the caller's rng.
C18_RoundTwoShare ==
    res.op = "round_2" =>
        LET g   == Unwrap(gen[res.party])
            s   == sk[g.sk_share]
            q   == CtxQ(s.par, 0)
            agg == Obj(res.arg[1])
            n0  == Len(agg.h0)
            n1  == Len(agg.h1)
        IN  /\ res.status = "Ok" /\ IsSome(res.share)
            /\ Len(Unwrap(res.share).h0) = n0
            /\ Len(Unwrap(res.share).h1) = n1
            /\ \A i \in 1..n0 :
                  Unwrap(res.share).h0[i] = Poly(q, agg.h0[i].v * s.coeffs + Drawn(i))
            /\ \A i \in 1..n1 :
                  Unwrap(res.share).h1[i] =
                      Poly(q, agg.h1[i].v * (g.u.v - s.coeffs) + Drawn(n0 + i))
            /\ res.rng = RngAfter(res.rng0, n0 + n1)

\* The sum of the i-th entries of vector `field` over a sequence of shares,
\* in the ring of modulus q; every share must have such an entry of that ring.
EntrySum(shares, field, i, q) ==
    Poly(q, SumOver([k \in 1..Len(shares) |-> shares[k][field][i].v], 1..Len(shares)))

HasEntry(shares, field, i, q) ==
    \A k \in 1..Len(shares) : i <= Len(shares[k][field]) /\ shares[k][field][i].q = q

\* C19: round-1 aggregation of a non-empty sequence of round-1 shares returns
\* an R1Aggregated object without embedded predecessor, with one entry per
\* modulus in h0 and in h1, the i-th being the sum of the i-th entries of
\* all input shares.
C19_RoundOneAggregate ==
    (res.op = "aggregate_R1" /\ res.arg # <<>>) =>
        LET shares == Objs(res.arg)
            par    == shares[1].par
            q      == CtxQ(par, 0)
        IN  /\ res.status = "Ok" /\ IsSome(agg1)
            /\ Unwrap(agg1).round = "R1Aggregated"
            /\ Unwrap(agg1).last_round = None
            /\ Len(Unwrap(agg1).h0) = Len(Moduli(par))
            /\ Len(Unwrap(agg1).h1) = Len(Moduli(par))
            /\ \A i \in 1..Len(Moduli(par)) :
                  /\ HasEntry(shares, "h0", i, q) /\ HasEntry(shares, "h1", i, q)
                  /\ Unwrap(agg1).h0[i] = EntrySum(shares, "h0", i, q)
                  /\ Unwrap(agg1).h1[i] = EntrySum(shares, "h1", i, q)

C24_Inv ==
    (res.op \in RoundOps /\ res.status = "Ok") =>
        LET j == res.party
            g == Unwrap(gen[j])
        IN  /\ g.sk_share = j
            /\ g.crp = SubSeq(crp, 1, Len(g.crp))
            /\ res.op = "round_1" =>
                  res.share = RelinKeyShare_R1_new(sk[j], SubSeq(crp, 1, Len(g.crp)),
                                                   g.u, res.rng0).val
            /\ res.op = "round_2" =>
                  res.share = RelinKeyShare_R2_new(sk[j], g.u, Obj(res.arg[1]), res.rng0).val

\* A round leaves every generator, every secret key and the CRP as they were.
C24_Step == res'.op \in RoundOps => gen' = gen /\ sk' = sk /\ crp' = crp

\* C24: round_1 and round_2 leave the RelinKeyGenerator unchanged (secret
\* key, CRP, mask u), so a party's round-2 share is computed with the mask
\* of its round-1 share, and the CRP of every round is the one the caller
\* supplied.
C24_GeneratorUnchanged == []C24_Inv /\ [][C24_Step]_vars

\* C24 witness: round_2 returned a share to a party that holds a round-1
\* share, on a generator with a nonzero mask.
C24_Witness ==
    /\ res.op = "round_2" /\ res.status = "Ok" /\ IsSome(res.share)
    /\ IsSome(r1[res.party])
    /\ Unwrap(gen[res.party]).u.v # 0
    /\ r1[res.party] =
          RelinKeyShare_R1_new(sk[res.party], Unwrap(gen[res.party]).crp,
                               Unwrap(gen[res.party]).u,
                               (seed + 5 * res.party + 6) % 16).val

\* ------------------------------------ properties: the public key switch share

\* The last call was PublicKeySwitchShare::new on arguments of equal
\* Parameters, with a public key that can be brought to the ciphertext's
\* level: one at or below it.
PksNewCalled ==
    /\ res.op = "PublicKeySwitchShare::new" /\ PksParametersAgree(res.party)
    /\ target.pk.c.level <= Unwrap(ct).c.level

C20_Inv ==
    PksNewCalled =>
        LET j  == res.party
            c  == Unwrap(ct).c
            q  == CtxQ(c.par, c.level)
            pk == SwitchedTo(target.pk.c, c.level)
            s  == sk[j].coeffs
            u  == Drawn(1)
            e0 == Drawn(2)
            e1 == Drawn(3)
        IN  /\ res.status = "Ok" /\ IsSome(pks[j])
            /\ pk.level = c.level
            /\ Unwrap(pks[j]).h0_share = Poly(q, pk.c[1].v * u + s * c.c[2].v + e0)
            /\ Unwrap(pks[j]).h1_share = Poly(q, pk.c[2].v * u + e1)
            /\ Unwrap(pks[j]).c0 = c.c[1]
            /\ Unwrap(pks[j]).par = sk[j].par
            /\ res.rng = RngAfter(res.rng0, 3)

C20_Step ==
    (res'.op = "PublicKeySwitchShare::new" /\ res' # res) =>
        sk' = sk /\ target' = target /\ ct' = ct

LevelLoopEntered == res.op = "PublicKeySwitchShare::new" /\ PksParametersAgree(res.party)

\* C23: the level loop of PublicKeySwitchShare::new ends for every pair of
\* levels of the public key and the ciphertext: for a key at or below the
\* ciphertext's level after exactly ct.level - pk.level modulus switches,
\* the share built from the key at the ciphertext's level; for a key above
\* it the call returns an error.
C23_LevelLoop ==
    LevelLoopEntered =>
        LET pkl == target.pk.c.level
            c   == Unwrap(ct).c
        IN  IF pkl <= c.level
            THEN /\ res.status = "Ok"
                 /\ res.switches = c.level - pkl
                 /\ Unwrap(pks[res.party]).h1_share.q = CtxQ(c.par, c.level)
            ELSE res.status = "Err"

\* The level loop was entered with a key at or below the ciphertext's level.
C23_KeyAtOrBelow ==
    (LevelLoopEntered /\ target.pk.c.level <= Unwrap(ct).c.level) =>
        /\ res.status = "Ok"
        /\ res.switches = Unwrap(ct).c.level - target.pk.c.level

\* ------------------------------- properties: aggregation of the switch shares

\* The shares were built from one ciphertext: they carry its first component.
SameCiphertext(shares) == \A k \in 1..Len(shares) : shares[k].c0 = shares[1].c0

\* The sum of a field of the shares, as an integer.
FieldSum(shares, field) ==
    SumOver([k \in 1..Len(shares) |-> shares[k][field].v], 1..Len(shares))

\* C21: aggregating a non-empty sequence of PublicKeySwitchShares built from
\* the same ciphertext (c0, c1) returns the two-component ciphertext
\* (c0 + sum of the h0_share, sum of the h1_share) with the Parameters of
\* the shares.
C21_SwitchAggregate ==
    (res.op = "aggregate_pks" /\ res.arg # <<>> /\ SameCiphertext(Objs(res.arg))) =>
        LET shares == Objs(res.arg)
            q      == shares[1].c0.q
        IN  /\ res.status = "Ok" /\ IsSome(res.val)
            /\ Len(Unwrap(res.val).c) = 2
            /\ Unwrap(res.val).c[1] =
                  Poly(q, shares[1].c0.v + FieldSum(shares, "h0_share"))
            /\ Unwrap(res.val).c[2] = Poly(q, FieldSum(shares, "h1_share"))
            /\ \A k \in 1..Len(shares) : Unwrap(res.val).par = shares[k].par

\* C21 witness: the shares of all parties for one ciphertext, with h0_share
\* and h1_share that are not zero, were aggregated.
C21_Witness ==
    /\ res.op = "aggregate_pks" /\ res.status = "Ok"
    /\ Len(res.arg) = NumParties /\ NumParties > 1
    /\ SameCiphertext(Objs(res.arg))
    /\ \A k \in 1..Len(res.arg) :
          Obj(res.arg[k]).h0_share.v # 0 /\ Obj(res.arg[k]).h1_share.v # 0


\* -------------------------------------------- properties: public key shares

\* The parties that hold a PublicKeyShare.
ShareHolders == {j \in Parties : IsSome(p0[j])}

\* C22: PublicKeyShare::new(s, a) returns p0_share = -(a*s) + e in the ring
\* of the level-0 context, e drawn from the caller's rng; so the sum p0 of
\* the shares that parties built over the CRP a satisfies p0 + a*(sum of
\* their secrets) = sum of their errors, a small element: (p0, a) is a
\* public key for the sum of the secrets.
C22_PublicKeyShare ==
    /\ res.op = "PublicKeyShare::new" =>
          LET j == res.party
              q == CtxQ(sk[j].par, 0)
          IN  /\ res.status = "Ok" /\ IsSome(p0[j])
              /\ Unwrap(p0[j]).par = sk[j].par
              /\ Unwrap(p0[j]).p0_share = Poly(q, Drawn(1) - crp[1].v * sk[j].coeffs)
              /\ res.rng = RngAfter(res.rng0, 1)
    /\ \A S \in SUBSET ShareHolders :
          S # {} =>
            LET q  == CtxQ(sk[CHOOSE j \in S : TRUE].par, 0)
                sp == SumOver([j \in Parties |-> IF j \in S THEN Unwrap(p0[j]).p0_share.v ELSE 0], Parties)
                ss == SumOver([j \in Parties |-> IF j \in S THEN sk[j].coeffs ELSE 0], Parties)
            IN  /\ \A j \in S : Unwrap(p0[j]).p0_share.q = q
                /\ Abs(Centered(sp + crp[1].v * ss, q)) <= Cardinality(S)

\* ------------------------------------------ properties: Multiplicator::multiply

\* What multiply's three checks find in the operands, for the multiplicator m.
ParametersDiffer(m, lhs, rhs) == lhs.par # m.par \/ rhs.par # m.par

UnexpectedLevel(m, lhs, rhs) == lhs.level # m.level \/ rhs.level # m.level

SizeNot2(lhs, rhs) == Len(lhs.c) # 2 \/ Len(rhs.c) # 2

C25_Inv ==
    res.op = "multiply" =>
        LET m   == Unwrap(mul)
            lhs == res.arg[1]
            rhs == res.arg[2]
        IN  /\ ParametersDiffer(m, lhs, rhs) =>
                  res.status = "Err" /\ res.err = "ParametersDiffer" /\ res.val = None
            /\ (~ParametersDiffer(m, lhs, rhs) /\ UnexpectedLevel(m, lhs, rhs)) =>
                  res.status = "Err" /\ res.err = "UnexpectedLevel" /\ res.val = None
            /\ (~ParametersDiffer(m, lhs, rhs) /\ ~UnexpectedLevel(m, lhs, rhs)
                    /\ SizeNot2(lhs, rhs)) =>
                  res.status = "Err" /\ res.err = "SizeNot2" /\ res.val = None
            /\ res.status = "Ok" =>
                  /\ IsSome(res.val)
                  /\ Len(Unwrap(res.val).c) = IF IsSome(m.rk) THEN 2 ELSE 3
            /\ res.status # "Ok" => res.val = None

C25_Step ==
    /\ res'.op = "multiply" => mul' = mul
    /\ (res'.op = "enable_relinearization" /\ res'.status = "Err") =>
          IsSome(mul') /\ Unwrap(mul').rk = Unwrap(mul).rk

\* C25: multiply returns an error and no ciphertext when an operand's
\* Parameters differ from the multiplicator's, else when an operand's level
\* differs from the multiplicator's, else when an operand has not exactly 2
\* components; a returned ciphertext has 2 components with a
\* relinearization key enabled and 3 without; multiply leaves the
\* multiplicator as it was and a failed enable_relinearization leaves the
\* stored key as it was.
C25_MultiplyChecks == []C25_Inv /\ [][C25_Step]_vars

\* C25 witness: operands of other Parameters, at another level and of 3
\* components, handed to a multiplicator with a relinearization key, were
\* refused for their Parameters.
C25_Witness ==
    /\ res.op = "multiply" /\ res.status = "Err" /\ res.err = "ParametersDiffer"
    /\ IsSome(Unwrap(mul).rk)
    /\ ParametersDiffer(Unwrap(mul), res.arg[1], res.arg[2])
    /\ UnexpectedLevel(Unwrap(mul), res.arg[1], res.arg[2])
    /\ SizeNot2(res.arg[1], res.arg[2])

=========================================================================
